---- MODULE Spec2Model ----
(***************************************************************************)
(* Model of the credit-card tokenization engine of rbroggi/crypto-token    *)
(* (package tkengine).  Strings are sequences of byte values (0..255), as  *)
(* Go strings are; positions are 1-based here and 0-based in the source.   *)
(***************************************************************************)
EXTENDS Integers, Sequences, FiniteSets, TLC

(***************************************************************************)
(* Bounds of the model.                                                    *)
(***************************************************************************)
\* number of provider changes (rotation, retirement, key changes) in a run
MaxChanges == 1
\* number of key generations a repository may hold for one version
NumKeys == 1
\* number of middle-digit patterns tried for every card length
NumPatterns == 2
\* number of distinct clock readings a run may see
NumReadings == 4
\* number of values tried at each end and in the middle of every value range
NumSamples == 12
\* number of goroutines calling one engine at the same time
NumThreads == 2

(***************************************************************************)
(* Go primitives used by the package.                                      *)
(***************************************************************************)
RECURSIVE Pow(_, _)
\* math.Pow on the small integer arguments the package passes (exact there)
Pow(b, e) == IF e = 0 THEN 1 ELSE b * Pow(b, e - 1)

\* the ASCII digits '0'..'9'
AsciiDigits == 48..57

\* the characters [0-9a-zA-Z]
AlphaNum == (48..57) \cup (65..90) \cup (97..122)

RECURSIVE Itoa(_)
\* strconv.Itoa of a non-negative integer: its decimal digits, no padding
Itoa(n) == IF n < 10 THEN <<48 + n>> ELSE Itoa(n \div 10) \o <<48 + (n % 10)>>

RECURSIVE ParseDigits(_, _)
\* value of the digit string s read left to right, starting from acc
ParseDigits(s, acc) ==
    IF s = <<>> THEN acc ELSE ParseDigits(Tail(s), 10 * acc + (Head(s) - 48))

\* strconv.ParseUint(s, 10, 32): the value, or an error on an empty string,
\* a non-digit, or a value above 2^32-1 (only strings of at most 9 digits
\* are evaluated here, so the range check cannot fire)
ParseUint(s) ==
    IF s = <<>> \/ (\E i \in 1..Len(s) : s[i] \notin AsciiDigits) \/ Len(s) > 9
    THEN [n |-> 0, err |-> TRUE]
    ELSE [n |-> ParseDigits(s, 0), err |-> FALSE]

\* string(b) for a byte b: the UTF-8 encoding of the code point b
\* (one byte below 0x80, two bytes from 0x80 on)
StringOfByte(b) ==
    IF b < 128 THEN <<b>> ELSE <<192 + (b \div 64), 128 + (b % 64)>>

\* utf8.DecodeRuneInString at position i of s: the rune and its width;
\* an invalid or truncated encoding gives U+FFFD with width 1
DecodeRune(s, i) ==
    LET b0 == s[i]
        has(k) == i + k <= Len(s)
        cont(k) == s[i + k] \in 128..191
        lo2 == IF b0 = 224 THEN 160 ELSE IF b0 = 240 THEN 144 ELSE 128
        hi2 == IF b0 = 237 THEN 159 ELSE IF b0 = 244 THEN 143 ELSE 191
    IN  IF b0 < 128 THEN [r |-> b0, w |-> 1]
        ELSE IF b0 \in 194..223 /\ has(1) /\ cont(1)
        THEN [r |-> (b0 - 192) * 64 + (s[i + 1] - 128), w |-> 2]
        ELSE IF b0 \in 224..239 /\ has(2) /\ s[i + 1] \in lo2..hi2 /\ cont(2)
        THEN [r |-> (b0 - 224) * 4096 + (s[i + 1] - 128) * 64 + (s[i + 2] - 128),
              w |-> 3]
        ELSE IF b0 \in 240..244 /\ has(3) /\ s[i + 1] \in lo2..hi2 /\ cont(2) /\ cont(3)
        THEN [r |-> (b0 - 240) * 262144 + (s[i + 1] - 128) * 4096
                    + (s[i + 2] - 128) * 64 + (s[i + 3] - 128),
              w |-> 4]
        ELSE [r |-> 65533, w |-> 1]

RECURSIVE RangeFrom(_, _)
\* the runes a Go "for _, el := range s" visits, from byte position i on
RangeFrom(s, i) ==
    IF i > Len(s) THEN <<>>
    ELSE LET d == DecodeRune(s, i) IN <<d.r>> \o RangeFrom(s, i + d.w)

\* the runes of "for _, el := range s"
Runes(s) == RangeFrom(s, 1)

\* unicode.IsDigit: the decimal digits (category Nd); the ranges below are
\* those of the Unicode table up to U+1049 and the fullwidth digits
IsDigit(r) ==
    \/ r \in 48..57
    \/ r \in 1632..1641 \/ r \in 1776..1785 \/ r \in 1984..1993
    \/ r \in 2406..2415 \/ r \in 2534..2543 \/ r \in 2662..2671
    \/ r \in 2790..2799 \/ r \in 2918..2927 \/ r \in 3046..3055
    \/ r \in 3174..3183 \/ r \in 3302..3311 \/ r \in 3430..3439
    \/ r \in 3664..3673 \/ r \in 3792..3801 \/ r \in 3872..3881
    \/ r \in 4160..4169 \/ r \in 65296..65305

(***************************************************************************)
(* Alphabet providers.  A lookup result is [alpha, err]; on error the      *)
(* alphabet is empty, as in the source.                                    *)
(***************************************************************************)
\* the symbols a..z followed by 0..5, of which the default alphabets are prefixes
DefaultSymbols == [i \in 1..32 |-> IF i <= 26 THEN 96 + i ELSE 21 + i]

\* the bases NewEngine validates, in the order of its loop
RequiredBases == <<14, 15, 16, 18, 22, 32>>

\* the default alphabets with "...2 3 4 4" as the end of the base-32 one
DefaultWithRepeatedSymbol(base) ==
    IF base = 32 THEN [alpha |-> SubSeq(DefaultSymbols, 1, 31) \o <<52>>, err |-> FALSE]
    ELSE IF base \in {14, 15, 16, 18, 22}
    THEN [alpha |-> SubSeq(DefaultSymbols, 1, base), err |-> FALSE]
    ELSE [alpha |-> <<>>, err |-> TRUE]

\* DefaultAlphabetProvider.GetAlphabetForBase
DefaultGetAlphabetForBase(base) ==
    IF base \in {14, 15, 16, 18, 22, 32}
    THEN [alpha |-> SubSeq(DefaultSymbols, 1, base), err |-> FALSE]
    ELSE [alpha |-> <<>>, err |-> TRUE]

\* missingBase14AlphaProvider.GetAlphabetForBase (test provider)
MissingBase14GetAlphabetForBase(base) ==
    IF base \in {15, 16, 18, 22, 32}
    THEN [alpha |-> SubSeq(DefaultSymbols, 1, base), err |-> FALSE]
    ELSE [alpha |-> <<>>, err |-> TRUE]

\* wrongSizeBase14AlphaProvider.GetAlphabetForBase (test provider):
\* 13 symbols for base 14, and no entry for base 15
WrongSizeBase14GetAlphabetForBase(base) ==
    IF base = 14 THEN [alpha |-> SubSeq(DefaultSymbols, 1, 13), err |-> FALSE]
    ELSE IF base \in {16, 18, 22, 32}
    THEN [alpha |-> SubSeq(DefaultSymbols, 1, base), err |-> FALSE]
    ELSE [alpha |-> <<>>, err |-> TRUE]

\* duplicatedSymbolsBase14AlphaProvider.GetAlphabetForBase (test provider):
\* base 14 ends in 'm', 'm'
DuplicatedSymbolsBase14GetAlphabetForBase(base) ==
    IF base = 14 THEN [alpha |-> SubSeq(DefaultSymbols, 1, 13) \o <<109>>, err |-> FALSE]
    ELSE IF base \in {15, 16, 18, 22, 32}
    THEN [alpha |-> SubSeq(DefaultSymbols, 1, base), err |-> FALSE]
    ELSE [alpha |-> <<>>, err |-> TRUE]

\* Character sets a configuration record may carry (Config.CharSets), one
\* string per required base:
\*   "upper"  : Z Y X ... downwards, then 9 8 7 ...  (a permuted, alphanumeric set)
\*   "punct"  : ! " # $ ...                          (ASCII, not alphanumeric)
\*   "latin1" : the bytes 0xC0, 0xC1, ...            (bytes above 0x7F)
CharSetNames == {"upper", "punct", "latin1"}

\* the i-th symbol (1-based) of the configured character sets of that name
CharSetSymbol(name, i) ==
    IF name = "upper" THEN (IF i <= 26 THEN 91 - i ELSE 84 - i)
    ELSE IF name = "punct" THEN 32 + i
    ELSE 191 + i

\* alphaProvider.GetAlphabetForBase of the configuration-backed provider:
\* the bytes of the configured string, or an error for an absent base
CharSetsGetAlphabetForBase(name, base) ==
    IF base \in {14, 15, 16, 18, 22, 32}
    THEN [alpha |-> [i \in 1..base |-> CharSetSymbol(name, i)], err |-> FALSE]
    ELSE [alpha |-> <<>>, err |-> TRUE]

\* AlphabetProvider.GetAlphabetForBase, dispatched on the provider value
GetAlphabetForBase(p, base) ==
    IF p = "default" THEN DefaultGetAlphabetForBase(base)
    ELSE IF p = "missingBase14" THEN MissingBase14GetAlphabetForBase(base)
    ELSE IF p = "wrongSizeBase14" THEN WrongSizeBase14GetAlphabetForBase(base)
    ELSE IF p = "duplicatedSymbolsBase14" THEN DuplicatedSymbolsBase14GetAlphabetForBase(base)
    ELSE CharSetsGetAlphabetForBase(p, base)

\* the set of elements of a sequence
Range(s) == {s[i] : i \in 1..Len(s)}

\* the validation without the test for repeated symbols
validateSizesOnly(p) ==
    \E k \in 1..Len(RequiredBases) :
        LET res == GetAlphabetForBase(p, RequiredBases[k])
        IN  \/ res.err
            \/ Len(res.alpha) # RequiredBases[k]

\* validateAlphabetProvider: TRUE when it returns an error
validateAlphabetProvider(p) ==
    \E k \in 1..Len(RequiredBases) :
        LET res == GetAlphabetForBase(p, RequiredBases[k])
        IN  \/ res.err
            \/ Len(res.alpha) # RequiredBases[k]
            \/ Cardinality(Range(res.alpha)) # Len(res.alpha)

(***************************************************************************)
(* Base codec.                                                             *)
(***************************************************************************)
\* the range check with 10 in place of 9: a length of 10 finds no entry in
\* the map and gets the zero value
encodingBaseUpToTen(s) ==
    IF s < 3 \/ s > 10 THEN [base |-> 0, err |-> TRUE]
    ELSE [base |-> CASE s = 3 -> 32 [] s = 4 -> 22 [] s = 5 -> 18 [] s = 6 -> 16
                     [] s = 7 -> 15 [] s = 8 -> 14 [] s = 9 -> 14 [] OTHER -> 0,
          err |-> FALSE]

\* encodingBaseToSaveOneChar: the base for a decimal segment of s digits
encodingBaseToSaveOneChar(s) ==
    IF s < 3 \/ s > 9 THEN [base |-> 0, err |-> TRUE]
    ELSE [base |-> CASE s = 3 -> 32 [] s = 4 -> 22 [] s = 5 -> 18 [] s = 6 -> 16
                     [] s = 7 -> 15 [] s = 8 -> 14 [] s = 9 -> 14,
          err |-> FALSE]

\* the index the alphaMap built from alpha holds for byte b: a later
\* position overwrites an earlier one; 0 when b is not a key of the map
AlphaMapIndex(alpha, b) ==
    IF \E i \in 1..Len(alpha) : alpha[i] = b
    THEN CHOOSE i \in 1..Len(alpha) :
            /\ alpha[i] = b
            /\ \A j \in 1..Len(alpha) : alpha[j] = b => j <= i
    ELSE 0

\* the largest int32
MaxInt32 == 2147483647

\* int32(x) of a non-negative x below 2^32: x itself up to MaxInt32, and
\* x - 2^32 above it (two's complement)
ToInt32(x) == IF x <= MaxInt32 THEN x ELSE ((x - MaxInt32) - MaxInt32) - 2

\* the quotient a / b of two int32, truncated toward zero
Quo(a, b) ==
    IF a >= 0
    THEN (IF b > 0 THEN a \div b ELSE -(a \div (-b)))
    ELSE (IF b > 0 THEN -((-a) \div b) ELSE (-a) \div (-b))

\* the remainder a % b of two int32, with the sign of a
Rem(a, b) == a - b * Quo(a, b)

RECURSIVE EncodeLoop(_, _, _, _, _)
\* the loop of encodeTkMD from iteration i on:
\* m = int32(n) / int32(base^(fsize-i)), n = int32(n) % int32(base^(fsize-i)),
\* append string(alpha[m])
EncodeLoop(n, base, alpha, fsize, i) ==
    IF i > fsize THEN <<>>
    ELSE LET d == ToInt32(Pow(base, fsize - i))
             m == Quo(ToInt32(n), d)
         IN  StringOfByte(alpha[m + 1])
             \o EncodeLoop(Rem(ToInt32(n), d), base, alpha, fsize, i + 1)

\* encodeTkMD(ciphertext, alphaProvider): [out, err]
encodeTkMD(ciphertext, p) ==
    IF Len(ciphertext) < 3 \/ Len(ciphertext) > 9
    THEN [out |-> <<>>, err |-> "CodecSize"]
    ELSE LET parsed == ParseUint(ciphertext)
             b == encodingBaseToSaveOneChar(Len(ciphertext))
             a == GetAlphabetForBase(p, b.base)
         IN  IF parsed.err THEN [out |-> <<>>, err |-> "ParseUint"]
             ELSE IF b.err THEN [out |-> <<>>, err |-> "CodecSize"]
             ELSE IF a.err THEN [out |-> <<>>, err |-> "NoAlphabet"]
             ELSE [out |-> EncodeLoop(parsed.n, b.base, a.alpha, Len(ciphertext) - 1, 1),
                   err |-> "nil"]

\* uint32(x) of a non-negative x: a uint32 is held as its two 16-bit halves
\* [hi, lo], which stand for hi * 2^16 + lo
Uint32(x) == [hi |-> (x \div 65536) % 65536, lo |-> x % 65536]

\* an addition that keeps the low 16 bits only
U16Add(a, b) == [hi |-> 0, lo |-> (a.lo + b.lo) % 65536]

\* a + b of two uint32: the sum modulo 2^32
U32Add(a, b) ==
    [hi |-> (a.hi + b.hi + ((a.lo + b.lo) \div 65536)) % 65536,
     lo |-> (a.lo + b.lo) % 65536]

\* the low 16 bits of the product of two 16-bit values
MulLow16(a, b) == ((((a * (b \div 256)) % 256) * 256) + a * (b % 256)) % 65536

\* the product of two 16-bit values without its low 16 bits
MulHigh16(a, b) == ((a * (b \div 256)) + ((a * (b % 256)) \div 256)) \div 256

\* a * b of two uint32: the product modulo 2^32
U32Mul(a, b) ==
    [hi |-> (MulHigh16(a.lo, b.lo) + MulLow16(a.hi, b.lo) + MulLow16(a.lo, b.hi)) % 65536,
     lo |-> MulLow16(a.lo, b.lo)]

RECURSIVE U32Itoa(_)
\* strconv.Itoa(int(n)) of a uint32 n, int being 64 bits wide: the decimal
\* digits of n, no padding
U32Itoa(a) ==
    LET rest == (a.hi % 10) * 65536 + a.lo
        q == [hi |-> a.hi \div 10, lo |-> rest \div 10]
    IN  IF q.hi = 0 /\ q.lo = 0 THEN <<48 + (rest % 10)>>
        ELSE U32Itoa(q) \o <<48 + (rest % 10)>>

RECURSIVE DecodeLoop(_, _, _, _, _)
\* the loop of decodeTkMD from byte i on, with the uint32 n accumulated so
\* far: n = n + uint32(m) * uint32(base^(len-1-i)); the result is [n, ok],
\* where ok is FALSE as soon as a byte is not in the alphabet
DecodeLoop(tkMD, base, alpha, i, n) ==
    IF i > Len(tkMD) THEN [n |-> n, ok |-> TRUE]
    ELSE LET m == AlphaMapIndex(alpha, tkMD[i])
         IN  IF m = 0 THEN [n |-> n, ok |-> FALSE]
             ELSE DecodeLoop(tkMD, base, alpha, i + 1,
                             U32Add(n, U32Mul(Uint32(m - 1),
                                              Uint32(Pow(base, Len(tkMD) - i)))))

\* a string of k '0' characters
Zeros(k) == [i \in 1..k |-> 48]

\* decodeTkMD(tkMD, alphaProvider): [out, err]
decodeTkMD(tkMD, p) ==
    IF Len(tkMD) < 2 \/ Len(tkMD) > 8
    THEN [out |-> <<>>, err |-> "CodecSize"]
    ELSE LET decodeds == Len(tkMD) + 1
             b == encodingBaseToSaveOneChar(decodeds)
             a == GetAlphabetForBase(p, b.base)
             r == DecodeLoop(tkMD, b.base, a.alpha, 1, Uint32(0))
             str == U32Itoa(r.n)
         IN  IF b.err THEN [out |-> <<>>, err |-> "CodecSize"]
             ELSE IF a.err THEN [out |-> <<>>, err |-> "NoAlphabet"]
             ELSE IF ~r.ok THEN [out |-> <<>>, err |-> "UnknownSymbol"]
             ELSE [out |-> (IF decodeds > Len(str) THEN Zeros(decodeds - Len(str)) ELSE <<>>)
                           \o str,
                   err |-> "nil"]

(***************************************************************************)
(* External primitives, by their contract: a keyed hash and a              *)
(* format-preserving cipher over digit strings (radix 10).                 *)
(***************************************************************************)
RECURSIVE SumFrom(_, _)
\* sum of the bytes of a string from position i on
SumFrom(s, i) == IF i > Len(s) THEN 0 ELSE s[i] + SumFrom(s, i + 1)

RECURSIVE WeightedSum(_, _)
\* position-weighted sum of the bytes of a string, from position i on
WeightedSum(s, i) == IF i > Len(s) THEN 0 ELSE i * s[i] + WeightedSum(s, i + 1)

\* hmac.New(sha256.New, key); Write(msg); Sum(nil): a digest that is a
\* deterministic function of the key and of every byte and position of msg
Hmac(key, msg) == (131 * SumFrom(key, 1) + WeightedSum(msg, 1) + 17 * Len(msg)) % 9973

\* ff1.NewCipher(10, len(tweak), key, tweak): TRUE when it returns an error
\* (the key is not 128, 192 or 256 bits long)
NewCipherErr(key) == Len(key) \notin {16, 24, 32}

\* the digit stream of the cipher under (key, tweak) starts from this value
CipherPad(key, tweak) == (SumFrom(key, 1) + tweak) % 10

\* cipher.Encrypt(X): [out, err]; a bijection on the digit strings of each
\* length, an error for a string that is not made of digits
FpeEncrypt(key, tweak, X) ==
    IF Len(X) < 2 \/ \E i \in 1..Len(X) : X[i] \notin AsciiDigits
    THEN [out |-> <<>>, err |-> TRUE]
    ELSE LET k == CipherPad(key, tweak)
         IN  [out |-> [i \in 1..Len(X) |-> 48 + ((X[i] - 48 + k + 3 * i) % 10)],
              err |-> FALSE]

\* cipher.Decrypt(X): [out, err]; the inverse of Encrypt under the same key and tweak
FpeDecrypt(key, tweak, X) ==
    IF Len(X) < 2 \/ \E i \in 1..Len(X) : X[i] \notin AsciiDigits
    THEN [out |-> <<>>, err |-> TRUE]
    ELSE LET k == CipherPad(key, tweak)
         IN  [out |-> [i \in 1..Len(X) |-> 48 + ((X[i] - 48 + 40 - k - 3 * i) % 10)],
              err |-> FALSE]

(***************************************************************************)
(* Input validation.                                                       *)
(***************************************************************************)
\* the expression with {12,19} in place of {13,19}
isValidCCFrom12(cc) ==
    /\ Len(cc) >= 12
    /\ Len(cc) <= 19
    /\ \A i \in 1..Len(cc) : cc[i] \in AsciiDigits

\* isValidCC: the regular expression ^[0-9]{13,19}$ over the bytes of cc
isValidCC(cc) ==
    /\ Len(cc) >= 13
    /\ Len(cc) <= 19
    /\ \A i \in 1..Len(cc) : cc[i] \in AsciiDigits

\* a membership test that finds every byte
containsAny(s, v) == TRUE

\* contains(s, v)
contains(s, v) == \E i \in 1..Len(s) : s[i] = v

\* isValidTK(tk, alphaProvider, vers)
isValidTK(tk, p, vers) ==
    IF Len(tk) < 13 \/ Len(tk) > 19 THEN FALSE
    ELSE LET six == Runes(SubSeq(tk, 1, 6))
             four == Runes(SubSeq(tk, Len(tk) - 3, Len(tk)))
             b == encodingBaseToSaveOneChar(Len(tk) - 10)
             a == GetAlphabetForBase(p, b.base)
             middle == Runes(SubSeq(tk, 8, Len(tk) - 4))
         IN  /\ \A i \in 1..Len(six) : IsDigit(six[i])
             /\ \A i \in 1..Len(four) : IsDigit(four[i])
             /\ ~b.err
             /\ ~a.err
             /\ \A i \in 1..Len(middle) : AlphaMapIndex(a.alpha, middle[i] % 256) # 0
             /\ contains(vers, tk[7])

(***************************************************************************)
(* State.                                                                  *)
(***************************************************************************)
VARIABLES
    engine,     \* the engine struct: references to its four providers
    newErr,     \* whether the last constructor call returned an error
    versioner,  \* the caller's versioner: tokVersion, detokVersions
    encKeys,    \* the caller's encryption-key repository: version -> key
    hmacKeys,   \* the caller's HMAC-key repository: version -> key
    changes,    \* number of provider changes made so far
    last,       \* the last EncryptCC / DecryptTK call: input, result, error
    issued,     \* the token the caller holds, with what EncryptCC issued it from
    seed,       \* the seed of the process-wide random source of math/rand
    codec,      \* the calls of the package's codec functions made in a codec run
    threads,    \* the goroutines calling the engine concurrently: position, call, result
    frames,     \* the local variables of the calls in progress, one frame per call
    config      \* the configuration record the command-line tool has read, and its fate

vars == <<engine, newErr, versioner, encKeys, hmacKeys, changes, last, issued,
          seed, codec, threads, frames, config>>

\* no configuration record read
NoConfig ==
    [state |-> "none", tokenizationVersion |-> <<>>, detokenizationVersions |-> <<>>,
     versions |-> <<>>, charSets |-> "nil"]

\* the versions the caller's providers hold keys for: 'a' and the byte 0xC8
Versions == {97, 200}

\* the versions the caller's versioner may accept for detokenization: those
\* and 'f', for which there is no key
DetokChoices == Versions \cup {102}

\* a 16-byte key, one per version and key generation j
KeyBytes(v, j) == [i \in 1..16 |-> (v + 7 * j + i) % 256]

\* the key a repository stores under generation j; generation 0 is the empty key
KeyOf(v, j) == IF j = 0 THEN <<>> ELSE KeyBytes(v, j)

\* the engine value before construction and after a failed construction
NilEngine ==
    [versioner |-> "nil", encryptionKeys |-> "nil", hmacKeys |-> "nil",
     alphaProvider |-> "nil"]

\* the keys NewDummyEngine decodes from its hard-coded hexadecimal strings
DummyEncryptionKeys ==
    (97 :> <<43, 126, 21, 22, 40, 174, 210, 166, 171, 247, 21, 136, 9, 207, 79, 60>>) @@
    (98 :> <<44, 126, 21, 22, 40, 174, 210, 166, 171, 247, 21, 136, 9, 207, 79, 59>>) @@
    (99 :> <<45, 126, 21, 22, 40, 174, 210, 166, 171, 247, 21, 136, 9, 207, 79, 49>>) @@
    (100 :> <<46, 126, 21, 22, 40, 174, 210, 166, 171, 247, 21, 136, 9, 207, 78, 59>>)

\* the HMAC keys of versions 'a', 'b' and 'c' only
DummyHmacKeysUpToC ==
    (97 :> <<59, 126, 21, 22, 40, 174, 210, 166, 171, 247, 21, 136, 9, 207, 79, 60>>) @@
    (98 :> <<60, 126, 21, 22, 40, 174, 210, 166, 171, 247, 21, 136, 9, 207, 79, 59>>) @@
    (99 :> <<61, 126, 21, 22, 40, 174, 210, 166, 171, 247, 21, 136, 9, 207, 79, 49>>)

\* the HMAC keys NewDummyEngine decodes from its hard-coded hexadecimal strings
DummyHmacKeys ==
    (97 :> <<59, 126, 21, 22, 40, 174, 210, 166, 171, 247, 21, 136, 9, 207, 79, 60>>) @@
    (98 :> <<60, 126, 21, 22, 40, 174, 210, 166, 171, 247, 21, 136, 9, 207, 79, 59>>) @@
    (99 :> <<61, 126, 21, 22, 40, 174, 210, 166, 171, 247, 21, 136, 9, 207, 79, 49>>) @@
    (100 :> <<62, 126, 21, 22, 40, 174, 210, 166, 171, 247, 21, 136, 9, 207, 78, 59>>)

\* Versioner.GetTokenizationVersion of a configuration record: [v, err],
\* an error unless the tokenization version is one byte long
ConfigTokenizationVersion(c) ==
    IF Len(c.tokenizationVersion) # 1 THEN [v |-> 0, err |-> TRUE]
    ELSE [v |-> c.tokenizationVersion[1], err |-> FALSE]

\* EncKeysRepo.GetKey (enc) and HmacKeysRepo.GetKey over the Versions of a
\* configuration record: [key, err], the key of the first entry whose Vid
\* is string(version)
ConfigGetKey(versions, enc, version) ==
    LET hits == {i \in 1..Len(versions) : versions[i].vid = StringOfByte(version)}
        first == CHOOSE i \in hits : \A j \in hits : i <= j
    IN  IF hits = {} THEN [key |-> <<>>, err |-> TRUE]
        ELSE [key |-> IF enc THEN versions[first].encryptionKey ELSE versions[first].hmacKey,
              err |-> FALSE]

\* such a repository as a map: a version byte is in its domain when GetKey
\* finds an entry for it
ConfigKeys(versions, enc) ==
    [v \in {x \in 0..255 : ~ConfigGetKey(versions, enc, x).err} |->
        ConfigGetKey(versions, enc, v).key]

\* the map behind a key-repository reference of the engine
RepoKeys(ref) ==
    IF ref = "dummyEncryptionKeys" THEN DummyEncryptionKeys
    ELSE IF ref = "dummyHmacKeys" THEN DummyHmacKeys
    ELSE IF ref = "configEncryptionKeys" THEN ConfigKeys(config.versions, TRUE)
    ELSE IF ref = "configHmacKeys" THEN ConfigKeys(config.versions, FALSE)
    ELSE IF ref = "encKeys" THEN encKeys
    ELSE hmacKeys

\* a lookup that gives a key of 16 zero bytes, and no error, for a version
\* the repository does not hold
GetKeyOrZeroKey(ref, v) ==
    IF v \in DOMAIN RepoKeys(ref)
    THEN [key |-> RepoKeys(ref)[v], err |-> FALSE]
    ELSE [key |-> [i \in 1..16 |-> 0], err |-> FALSE]

\* keyRepo.GetKey(v): [key, err]
GetKey(ref, v) ==
    IF v \in DOMAIN RepoKeys(ref)
    THEN [key |-> RepoKeys(ref)[v], err |-> FALSE]
    ELSE [key |-> <<>>, err |-> TRUE]

\* the readings of time.Now().UnixNano() a call may get
ClockReadings == 2..(NumReadings + 1)

\* vers[rand.Intn(len(vers))] of the dummy versioner right after rand.Seed(s):
\* one of 'a'..'d', a function of the seed
DummyDraw(s) == <<97, 98, 99, 100>>[(s % 4) + 1]

\* GetTokenizationVersion: the results [v, err, seed] a call can return, seed
\* being the seed of the process-wide random source after the call.  The
\* dummy versioner seeds that source with the clock, draws one of 'a'..'d'
\* from it and never fails; the caller's versioner returns its tokenization
\* version, or fails, and leaves the random source alone; the versioner of a
\* configuration record returns the record's tokenization version
GetTokenizationVersion(ref) ==
    IF ref = "dummyVersioner"
    THEN {[v |-> DummyDraw(s), err |-> FALSE, seed |-> s] : s \in ClockReadings}
    ELSE IF ref = "configVersioner"
    THEN {[v |-> ConfigTokenizationVersion(config).v,
           err |-> ConfigTokenizationVersion(config).err, seed |-> seed]}
    ELSE {[v |-> versioner.tokVersion, err |-> FALSE, seed |-> seed],
          [v |-> 0, err |-> TRUE, seed |-> seed]}

\* GetDetokenizationVersions: the results [vers, err] a call can return; the
\* versioner of a configuration record returns the bytes of the record's string
GetDetokenizationVersions(ref) ==
    IF ref = "dummyVersioner" THEN {[vers |-> <<97, 98, 99, 100>>, err |-> FALSE]}
    ELSE IF ref = "configVersioner"
    THEN {[vers |-> config.detokenizationVersions, err |-> FALSE]}
    ELSE {[vers |-> versioner.detokVersions, err |-> FALSE], [vers |-> <<>>, err |-> TRUE]}

(***************************************************************************)
(* The engine's two operations, as functions of the input and of the       *)
(* providers' state.  A result is [out, err, ver, msg, calls, fail, seed]: *)
(* the returned string, the error ("nil" for none), the version the call   *)
(* worked with (empty when it never got one), the message it gave to the   *)
(* keyed hash, the calls it made to its providers and to the cipher, in    *)
(* order, the one of them that returned an error ("" when none did), and   *)
(* the seed of the process-wide random source when the call returns.       *)
(***************************************************************************)
\* the result of a call that fails with error e
Failure(e, ver, msg, calls, fail) ==
    [out |-> <<>>, err |-> e, ver |-> ver, msg |-> msg, calls |-> calls, fail |-> fail]

\* the 6x4 buffer: make([]byte, 10), copy of the first 6, append of the last 4
SixByFour(s) ==
    [i \in 1..10 |-> IF i <= 6 THEN s[i] ELSE 0] \o SubSeq(s, Len(s) - 3, Len(s))

\* a token with the last three, not four, digits of the card
AssembleTokenShortTail(cc, v, tkmd) ==
    SubSeq(cc, 1, 6) \o StringOfByte(v) \o tkmd \o SubSeq(cc, Len(cc) - 2, Len(cc))

\* fmt.Sprintf("%s%s%s%s", cc[0:6], string(v), tkmd, cc[len(cc)-4:])
AssembleToken(cc, v, tkmd) ==
    SubSeq(cc, 1, 6) \o StringOfByte(v) \o tkmd \o SubSeq(cc, Len(cc) - 3, Len(cc))

\* EncryptCC from the keyed hash on, with the version and the two keys it
\* has fetched; calls are the provider calls made before
EncryptWithKeys(e, cc, v, ekey, hkey, calls) ==
    LET sixByFour == SixByFour(cc)
        md == SubSeq(cc, 7, Len(cc) - 4)
        tweak == Hmac(hkey, sixByFour)
        c == FpeEncrypt(ekey, tweak, md)
        tkmd == encodeTkMD(c.out, e.alphaProvider)
        c1 == Append(calls, "ff1.NewCipher")
        c2 == Append(c1, "cipher.Encrypt")
    IN  IF NewCipherErr(ekey) THEN Failure("CipherConfig", <<v>>, sixByFour, c1, "ff1.NewCipher")
        ELSE IF c.err THEN Failure("CipherOperation", <<v>>, sixByFour, c2, "cipher.Encrypt")
        ELSE IF Len(md) # Len(c.out) THEN Failure("LengthDiffers", <<v>>, sixByFour, c2, "")
        ELSE IF tkmd.err # "nil" THEN Failure(tkmd.err, <<v>>, sixByFour, c2, "")
        ELSE [out |-> AssembleToken(cc, v, tkmd.out), err |-> "nil", ver |-> <<v>>,
              msg |-> sixByFour, calls |-> c2, fail |-> ""]

\* a call result r with the seed the random source has when the call returns
WithSeed(r, s) ==
    [out |-> r.out, err |-> r.err, ver |-> r.ver, msg |-> r.msg, calls |-> r.calls,
     fail |-> r.fail, seed |-> s]

\* engine.EncryptCC(cc), given the result vres of GetTokenizationVersion
EncryptCC(e, cc, vres) ==
    IF ~isValidCC(cc) THEN WithSeed(Failure("InvalidCC", <<>>, <<>>, <<>>, ""), seed)
    ELSE LET v == vres.v
             ek == GetKey(e.encryptionKeys, v)
             hk == GetKey(e.hmacKeys, v)
             c1 == <<"GetTokenizationVersion">>
             c2 == Append(c1, "encryptionKeys.GetKey")
             c3 == Append(c2, "hmacKeys.GetKey")
         IN  WithSeed(
               IF vres.err THEN Failure("Versioner", <<>>, <<>>, c1, "GetTokenizationVersion")
               ELSE IF ek.err THEN Failure("KeyNotFound", <<v>>, <<>>, c2, "encryptionKeys.GetKey")
               ELSE IF hk.err THEN Failure("KeyNotFound", <<v>>, <<>>, c3, "hmacKeys.GetKey")
               ELSE EncryptWithKeys(e, cc, v, ek.key, hk.key, c3),
               vres.seed)

\* DecryptTK from the keyed hash on, with the two keys it has fetched for
\* the token's version; calls are the provider calls made before
DecryptWithKeys(e, tk, ekey, hkey, calls) ==
    LET sixByFour == SixByFour(tk)
        v == tk[7]
        md == SubSeq(tk, 7, Len(tk) - 4)
        tweak == Hmac(hkey, sixByFour)
        decmd == decodeTkMD(Tail(md), e.alphaProvider)
        pt == FpeDecrypt(ekey, tweak, decmd.out)
        c1 == Append(calls, "ff1.NewCipher")
        c2 == Append(c1, "cipher.Decrypt")
    IN  IF decmd.err # "nil" THEN Failure(decmd.err, <<v>>, sixByFour, calls, "")
        ELSE IF NewCipherErr(ekey) THEN Failure("CipherConfig", <<v>>, sixByFour, c1, "ff1.NewCipher")
        ELSE IF pt.err THEN Failure("CipherOperation", <<v>>, sixByFour, c2, "cipher.Decrypt")
        ELSE IF Len(md) # Len(pt.out) THEN Failure("LengthDiffers", <<v>>, sixByFour, c2, "")
        ELSE [out |-> SubSeq(tk, 1, 6) \o pt.out \o SubSeq(tk, Len(tk) - 3, Len(tk)),
              err |-> "nil", ver |-> <<v>>, msg |-> sixByFour, calls |-> c2, fail |-> ""]

\* engine.DecryptTK(tk), given the result dv of GetDetokenizationVersions
DecryptTK(e, tk, dv) ==
    LET c1 == <<"GetDetokenizationVersions">>
        c2 == Append(c1, "encryptionKeys.GetKey")
        c3 == Append(c2, "hmacKeys.GetKey")
    IN  WithSeed(
          IF dv.err THEN Failure("Versioner", <<>>, <<>>, c1, "GetDetokenizationVersions")
          ELSE IF ~isValidTK(tk, e.alphaProvider, dv.vers) THEN Failure("InvalidTK", <<>>, <<>>, c1, "")
          ELSE LET v == tk[7]
                   ek == GetKey(e.encryptionKeys, v)
                   hk == GetKey(e.hmacKeys, v)
               IN  IF ek.err THEN Failure("KeyNotFound", <<v>>, <<>>, c2, "encryptionKeys.GetKey")
                   ELSE IF hk.err THEN Failure("KeyNotFound", <<v>>, <<>>, c3, "hmacKeys.GetKey")
                   ELSE DecryptWithKeys(e, tk, ek.key, hk.key, c3),
          seed)

(***************************************************************************)
(* Inputs.                                                                 *)
(***************************************************************************)
\* digit i of the middle-digit pattern j: the digits of the test card
\* 4444 3333 2222 1111, nines, zeros, then mixed digits
PatternDigit(j, i) ==
    IF j = 1 THEN <<3, 3, 2, 2, 2, 2, 1, 1, 1>>[i]
    ELSE IF j = 2 THEN 9
    ELSE IF j = 3 THEN 0
    ELSE (i * j + 1) % 10

\* the card of length L with first six 444433, last four 1111, middle pattern j
Card(L, j) ==
    <<52, 52, 52, 52, 51, 51>> \o [i \in 1..(L - 10) |-> 48 + PatternDigit(j, i)]
    \o <<49, 49, 49, 49>>

\* the well-formed cards tried
ValidCards == {Card(L, j) : L \in 13..19, j \in 1..NumPatterns}

\* s with the bytes from position i on replaced by those of r
Overwrite(s, i, r) ==
    [k \in 1..Len(s) |-> IF k >= i /\ k < i + Len(r) THEN r[k - i + 1] ELSE s[k]]

\* malformed cards: a leading letter (the test's "A444333322221111"), 12 and
\* 20 digits, a trailing newline, an Arabic-Indic digit (U+0660, two bytes),
\* the empty string
InvalidCards ==
    { Overwrite(Card(16, 1), 1, <<65>>),
      SubSeq(Card(13, 1), 1, 12),
      Card(19, 1) \o <<49>>,
      Card(16, 1) \o <<10>>,
      Overwrite(Card(16, 1), 5, <<217, 160>>),
      <<>> }

\* the strings given to EncryptCC
CCInputs == ValidCards \cup InvalidCards

\* tokens written out in the tests: "444433aapchc1111", "444433fapchc1111"
\* and the 15-character "444333322221111"
TestTokens ==
    { <<52, 52, 52, 52, 51, 51, 97, 97, 112, 99, 104, 99, 49, 49, 49, 49>>,
      <<52, 52, 52, 52, 51, 51, 102, 97, 112, 99, 104, 99, 49, 49, 49, 49>>,
      <<52, 52, 52, 51, 51, 51, 51, 50, 50, 50, 50, 49, 49, 49, 49>> }

\* variants of a token t: another byte in the version position, an
\* Arabic-Indic digit in the first six or the last four, a two-byte character
\* (U+0161) or a '~' in the middle segment, a missing last character
Tampered(t) ==
    { Overwrite(t, 7, <<v>>) : v \in DetokChoices }
    \cup { Overwrite(t, 5, <<217, 160>>),
           Overwrite(t, Len(t) - 2, <<217, 160>>),
           Overwrite(t, 8, <<197, 161>>),
           Overwrite(t, 8, <<126>>),
           SubSeq(t, 1, Len(t) - 1) }

\* no token held
NoToken == [cc |-> <<>>, tk |-> <<>>, ver |-> <<>>, ekey |-> <<>>, hkey |-> <<>>]

\* tokens EncryptCC never issues but DecryptTK's validation accepts: 13
\* characters, version 'a', the middle made of the highest symbol of the
\* engine's base-32 alphabet twice ("444433a551111" under the default
\* alphabets), and of the lowest symbol twice
ForgedTokens ==
    LET alpha == GetAlphabetForBase(engine.alphaProvider, 32).alpha
    IN  IF Len(alpha) # 32 THEN {}
        ELSE {<<52, 52, 52, 52, 51, 51, 97, alpha[i], alpha[i], 49, 49, 49, 49>> : i \in {1, 32}}

\* the strings given to DecryptTK: the token the caller holds and, for a
\* token of the test card, its variants; the tests' tokens and the forged
\* ones when it holds none
TKInputs ==
    IF issued = NoToken THEN TestTokens \cup ForgedTokens \cup {<<>>}
    ELSE {issued.tk} \cup (IF issued.cc = Card(16, 1) THEN Tampered(issued.tk) ELSE {})

(***************************************************************************)
(* Initial state and actions.                                              *)
(***************************************************************************)
\* no call made yet
NoCall ==
    [op |-> "none", arg |-> <<>>, out |-> <<>>, err |-> "nil", ver |-> <<>>, msg |-> <<>>,
     calls |-> <<>>, fail |-> ""]

Init ==
    /\ engine = NilEngine
    /\ newErr = FALSE
    /\ versioner = [tokVersion |-> 97, detokVersions |-> <<97, 200>>]
    /\ encKeys = [v \in Versions |-> KeyOf(v, 1)]
    /\ hmacKeys = [v \in Versions |-> KeyOf(v + 1, 1)]
    /\ changes = 0
    /\ last = NoCall
    /\ issued = NoToken
    /\ seed = 1
    /\ codec = <<>>
    /\ threads = <<>>
    /\ frames = <<>>
    /\ config = NoConfig

\* the alphabet providers a caller may hand to NewEngine
ProviderChoices ==
    {"default", "missingBase14", "wrongSizeBase14", "duplicatedSymbolsBase14"}
    \cup CharSetNames

\* NewEngine(versioner, encryptionKeys, hmacKeys, alphaProvider)
NewEngine(p) ==
    /\ engine = NilEngine
    /\ IF validateAlphabetProvider(p)
       THEN /\ engine' = NilEngine
            /\ newErr' = TRUE
       ELSE /\ engine' = [versioner |-> "versioner", encryptionKeys |-> "encKeys",
                          hmacKeys |-> "hmacKeys", alphaProvider |-> p]
            /\ newErr' = FALSE
    /\ UNCHANGED <<versioner, encKeys, hmacKeys, changes, last, issued, seed, codec, threads, frames, config>>

\* NewEngineWithDefaultAlphabet(versioner, encryptionKeys, hmacKeys)
NewEngineWithDefaultAlphabet ==
    /\ engine = NilEngine
    /\ engine' = [versioner |-> "versioner", encryptionKeys |-> "encKeys",
                  hmacKeys |-> "hmacKeys", alphaProvider |-> "default"]
    /\ newErr' = FALSE
    /\ UNCHANGED <<versioner, encKeys, hmacKeys, changes, last, issued, seed, codec, threads, frames, config>>

\* NewDummyEngine()
NewDummyEngine ==
    /\ engine = NilEngine
    /\ engine' = [versioner |-> "dummyVersioner", encryptionKeys |-> "dummyEncryptionKeys",
                  hmacKeys |-> "dummyHmacKeys", alphaProvider |-> "default"]
    /\ newErr' = FALSE
    /\ UNCHANGED <<versioner, encKeys, hmacKeys, changes, last, issued, seed, codec, threads, frames, config>>

\* the engine works with the caller's providers
UsesCallerProviders == engine.versioner = "versioner"

\* the caller's versioner moves to another tokenization version (key rotation)
SetTokenizationVersion(v) ==
    /\ UsesCallerProviders
    /\ v # versioner.tokVersion
    /\ versioner' = [versioner EXCEPT !.tokVersion = v]
    /\ UNCHANGED <<engine, newErr, encKeys, hmacKeys, changes, last, issued, seed, codec, threads, frames, config>>

\* s without the elements equal to v
Without(s, v) == SelectSeq(s, LAMBDA x : x # v)

\* the caller's versioner stops accepting version v for detokenization
RetireVersion(v) ==
    /\ UsesCallerProviders
    /\ changes < MaxChanges
    /\ v \in Range(versioner.detokVersions)
    /\ versioner' = [versioner EXCEPT !.detokVersions = Without(@, v)]
    /\ changes' = changes + 1
    /\ UNCHANGED <<engine, newErr, encKeys, hmacKeys, last, issued, seed, codec, threads, frames, config>>

\* the caller's versioner accepts version v for detokenization again
AllowVersion(v) ==
    /\ UsesCallerProviders
    /\ changes < MaxChanges
    /\ v \notin Range(versioner.detokVersions)
    /\ versioner' = [versioner EXCEPT !.detokVersions = Append(@, v)]
    /\ changes' = changes + 1
    /\ UNCHANGED <<engine, newErr, encKeys, hmacKeys, last, issued, seed, codec, threads, frames, config>>

\* a key of generation j is stored under version v in one of the caller's repositories
PutKey(enc, v, j) ==
    /\ UsesCallerProviders
    /\ changes < MaxChanges
    /\ IF enc
       THEN /\ (v \in DOMAIN encKeys => encKeys[v] # KeyOf(v, j))
            /\ encKeys' = [x \in DOMAIN encKeys \cup {v} |->
                              IF x = v THEN KeyOf(v, j) ELSE encKeys[x]]
            /\ UNCHANGED hmacKeys
       ELSE /\ (v \in DOMAIN hmacKeys => hmacKeys[v] # KeyOf(v + 1, j))
            /\ hmacKeys' = [x \in DOMAIN hmacKeys \cup {v} |->
                               IF x = v THEN KeyOf(v + 1, j) ELSE hmacKeys[x]]
            /\ UNCHANGED encKeys
    /\ changes' = changes + 1
    /\ UNCHANGED <<engine, newErr, versioner, last, issued, seed, codec, threads, frames, config>>

\* the key of version v is purged from one of the caller's repositories
DeleteKey(enc, v) ==
    /\ UsesCallerProviders
    /\ changes < MaxChanges
    /\ IF enc
       THEN /\ v \in DOMAIN encKeys
            /\ encKeys' = [x \in DOMAIN encKeys \ {v} |-> encKeys[x]]
            /\ UNCHANGED hmacKeys
       ELSE /\ v \in DOMAIN hmacKeys
            /\ hmacKeys' = [x \in DOMAIN hmacKeys \ {v} |-> hmacKeys[x]]
            /\ UNCHANGED encKeys
    /\ changes' = changes + 1
    /\ UNCHANGED <<engine, newErr, versioner, last, issued, seed, codec, threads, frames, config>>

\* a call of engine.EncryptCC(cc); the caller holds the token it returns,
\* with the card, version and keys it was issued from
CallEncryptCC(cc) ==
    /\ engine # NilEngine
    /\ last = NoCall
    /\ \E vres \in GetTokenizationVersion(engine.versioner) :
          \E r \in {EncryptCC(engine, cc, vres)} :
              /\ last' = [op |-> "EncryptCC", arg |-> cc, out |-> r.out, err |-> r.err,
                          ver |-> r.ver, msg |-> r.msg, calls |-> r.calls, fail |-> r.fail]
              /\ issued' = IF r.err = "nil"
                           THEN [cc |-> cc, tk |-> r.out, ver |-> r.ver,
                                 ekey |-> GetKey(engine.encryptionKeys, vres.v).key,
                                 hkey |-> GetKey(engine.hmacKeys, vres.v).key]
                           ELSE NoToken
              /\ seed' = r.seed
    /\ UNCHANGED <<engine, newErr, versioner, encKeys, hmacKeys, changes, codec, threads, frames, config>>

\* a call of engine.DecryptTK(tk)
CallDecryptTK(tk) ==
    /\ engine # NilEngine
    /\ issued # NoToken \/ last = NoCall
    /\ \E dv \in GetDetokenizationVersions(engine.versioner) :
          \E r \in {DecryptTK(engine, tk, dv)} :
              last' = [op |-> "DecryptTK", arg |-> tk, out |-> r.out, err |-> r.err,
                       ver |-> r.ver, msg |-> r.msg, calls |-> r.calls, fail |-> r.fail]
    /\ UNCHANGED <<engine, newErr, versioner, encKeys, hmacKeys, changes, issued, seed, codec, threads, frames, config>>

\* the caller is done with the last call and with the token it holds
StartOver ==
    /\ last # NoCall
    /\ last' = NoCall
    /\ issued' = NoToken
    /\ UNCHANGED <<engine, newErr, versioner, encKeys, hmacKeys, changes, seed, codec, threads, frames, config>>

Next ==
    \/ \E p \in ProviderChoices : NewEngine(p)
    \/ NewEngineWithDefaultAlphabet
    \/ NewDummyEngine
    \/ \E v \in Versions : SetTokenizationVersion(v)
    \/ \E v \in DetokChoices : RetireVersion(v)
    \/ \E v \in DetokChoices : AllowVersion(v)
    \/ \E enc \in BOOLEAN, v \in Versions, j \in 0..NumKeys : PutKey(enc, v, j)
    \/ \E enc \in BOOLEAN, v \in Versions : DeleteKey(enc, v)
    \/ \E cc \in CCInputs : CallEncryptCC(cc)
    \/ \E tk \in TKInputs : CallDecryptTK(tk)
    \/ StartOver

Spec == Init /\ [][Next]_vars

(***************************************************************************)
(* Codec runs: the package's codec functions applied to strings, under the *)
(* alphabet provider of an engine NewEngine has accepted.  codec is the    *)
(* sequence of calls made, each [op, arg, out, err]; a second call is      *)
(* given what the first returned.                                          *)
(***************************************************************************)
\* the decimal string of exactly s digits with value n < 10^s
DigitString(n, s) == Zeros(s - Len(Itoa(n))) \o Itoa(n)

\* the values tried for a range 0..top-1: the lowest, the highest and
\* evenly spread ones
SampleValues(top) ==
    UNION {{i, top - 1 - i, i * (top \div (NumSamples + 1)) + i} : i \in 0..NumSamples}

\* the decimal strings of the tests: "000", "001", "021", "352", "353", "00001"
LiteralDecimals ==
    {DigitString(n, 3) : n \in {0, 1, 21, 352, 353}} \cup {DigitString(1, 5)}

\* the strings given to encodeTkMD: decimal strings of 3 to 9 digits, and
\* strings it has to refuse: 2 and 10 digits, the empty string, a letter
DecimalInputs ==
    UNION {{DigitString(n, s) : n \in SampleValues(Pow(10, s))} : s \in 3..9}
    \cup LiteralDecimals
    \cup {<<49, 50>>, <<49, 50, 51, 52, 53, 54, 55, 56, 57, 48>>, <<>>, <<49, 50, 97>>}

\* the string of k symbols of alpha that stands for n in base Len(alpha)
SymbolString(n, k, alpha) ==
    [i \in 1..k |-> alpha[((n \div Pow(Len(alpha), k - i)) % Len(alpha)) + 1]]

\* the alphabet the engine's provider gives for the strings of k symbols
AlphabetForSymbols(k) ==
    GetAlphabetForBase(engine.alphaProvider, encodingBaseToSaveOneChar(k + 1).base).alpha

\* the strings given to decodeTkMD: strings of 2 to 8 symbols of the
\* matching alphabet, over the whole range of values of that many symbols,
\* and strings it has to refuse: 1 and 9 characters, a character that is no symbol
SymbolInputs ==
    UNION {{SymbolString(n, k, AlphabetForSymbols(k)) :
              n \in SampleValues(Pow(10, k + 1)) \cup SampleValues(Pow(Len(AlphabetForSymbols(k)), k))}
           : k \in 2..8}
    \cup {<<AlphabetForSymbols(2)[1]>>,
          [i \in 1..9 |-> AlphabetForSymbols(8)[1]],
          <<AlphabetForSymbols(2)[1], 126>>}

\* the segment lengths given to encodingBaseToSaveOneChar
SizeInputs == (-1)..12

\* an engine NewEngine has returned, no call made yet
CodecInit ==
    /\ \E p \in {q \in ProviderChoices : ~validateAlphabetProvider(q)} :
          engine = [versioner |-> "versioner", encryptionKeys |-> "encKeys",
                    hmacKeys |-> "hmacKeys", alphaProvider |-> p]
    /\ newErr = FALSE
    /\ versioner = [tokVersion |-> 97, detokVersions |-> <<97, 200>>]
    /\ encKeys = [v \in Versions |-> KeyOf(v, 1)]
    /\ hmacKeys = [v \in Versions |-> KeyOf(v + 1, 1)]
    /\ changes = 0
    /\ last = NoCall
    /\ issued = NoToken
    /\ seed = 1
    /\ codec = <<>>
    /\ threads = <<>>
    /\ frames = <<>>
    /\ config = NoConfig

\* what the next call of codec function op may be given: one of the fresh
\* inputs as a first call, the string the other function returned as a second
CodecInputs(op, fresh, other) ==
    IF codec = <<>> THEN fresh
    ELSE IF Len(codec) = 1 /\ codec[1].op = other /\ codec[1].err = "nil" THEN {codec[1].out}
    ELSE {}

\* a call of encodeTkMD(d, e.alphaProvider)
CallEncodeTkMD(d) ==
    /\ LET r == encodeTkMD(d, engine.alphaProvider)
       IN  codec' = Append(codec, [op |-> "encodeTkMD", arg |-> d, out |-> r.out, err |-> r.err])
    /\ UNCHANGED <<engine, newErr, versioner, encKeys, hmacKeys, changes, last, issued, seed, threads, frames, config>>

\* a call of decodeTkMD(t, e.alphaProvider)
CallDecodeTkMD(t) ==
    /\ LET r == decodeTkMD(t, engine.alphaProvider)
       IN  codec' = Append(codec, [op |-> "decodeTkMD", arg |-> t, out |-> r.out, err |-> r.err])
    /\ UNCHANGED <<engine, newErr, versioner, encKeys, hmacKeys, changes, last, issued, seed, threads, frames, config>>

\* a call of encodingBaseToSaveOneChar(s); argument and result are kept as
\* one-element sequences
CallEncodingBaseToSaveOneChar(s) ==
    /\ codec = <<>>
    /\ LET r == encodingBaseToSaveOneChar(s)
       IN  codec' = <<[op |-> "encodingBaseToSaveOneChar", arg |-> <<s>>, out |-> <<r.base>>,
                       err |-> IF r.err THEN "CodecSize" ELSE "nil"]>>
    /\ UNCHANGED <<engine, newErr, versioner, encKeys, hmacKeys, changes, last, issued, seed, threads, frames, config>>

\* the codec run starts over
CodecStartOver ==
    /\ codec # <<>>
    /\ codec' = <<>>
    /\ UNCHANGED <<engine, newErr, versioner, encKeys, hmacKeys, changes, last, issued, seed, threads, frames, config>>

CodecNext ==
    \/ \E d \in CodecInputs("encodeTkMD", DecimalInputs, "decodeTkMD") : CallEncodeTkMD(d)
    \/ \E t \in CodecInputs("decodeTkMD", SymbolInputs, "encodeTkMD") : CallDecodeTkMD(t)
    \/ \E s \in SizeInputs : CallEncodingBaseToSaveOneChar(s)
    \/ CodecStartOver

CodecSpec == CodecInit /\ [][CodecNext]_vars

(***************************************************************************)
(* Concurrent runs: goroutines call EncryptCC and DecryptTK on one engine  *)
(* at the same time.  A call is a sequence of steps, one per call to a     *)
(* provider, between which the other goroutines run; what a call has       *)
(* fetched so far is in the local variables of its frame.  The providers   *)
(* are the caller's, do not change and do not fail.                        *)
(***************************************************************************)
Threads == 1..NumThreads

\* every goroutine's locals in one place
SharedFrame(t) == 1

\* the frame that holds the local variables (v, detokVers, ekey, hkey) of
\* the call goroutine t makes: its own
Frame(t) == t

\* a goroutine that has not called yet
Idle == [pc |-> "idle", op |-> "none", arg |-> <<>>, out |-> <<>>, err |-> "nil"]

\* local variables not assigned yet
EmptyFrame == [v |-> 0, detokVers |-> <<>>, ekey |-> <<>>, hkey |-> <<>>]

\* the cards the goroutines encrypt: the test card and a malformed one
ConcCards == {Card(16, 1), Overwrite(Card(16, 1), 1, <<65>>)}

\* the tokens the goroutines decrypt: the tests' "444433aapchc1111" and
\* "444433fapchc1111", and the former with the byte 0xC8 as its version
ConcTokens ==
    { <<52, 52, 52, 52, 51, 51, 97, 97, 112, 99, 104, 99, 49, 49, 49, 49>>,
      <<52, 52, 52, 52, 51, 51, 102, 97, 112, 99, 104, 99, 49, 49, 49, 49>>,
      <<52, 52, 52, 52, 51, 51, 200, 97, 112, 99, 104, 99, 49, 49, 49, 49>> }

\* an engine NewEngine has returned, on providers that hold both keys of
\* version 'a' and only the encryption key of version 0xC8; no goroutine
\* has called yet
ConcInit ==
    /\ \E p \in {q \in ProviderChoices : ~validateAlphabetProvider(q)} :
          engine = [versioner |-> "versioner", encryptionKeys |-> "encKeys",
                    hmacKeys |-> "hmacKeys", alphaProvider |-> p]
    /\ newErr = FALSE
    /\ \E v \in Versions : versioner = [tokVersion |-> v, detokVersions |-> <<97, 200>>]
    /\ encKeys = [v \in Versions |-> KeyOf(v, 1)]
    /\ hmacKeys = [v \in {97} |-> KeyOf(v + 1, 1)]
    /\ changes = 0
    /\ last = NoCall
    /\ issued = NoToken
    /\ seed = 1
    /\ codec = <<>>
    /\ threads = [t \in Threads |-> Idle]
    /\ frames = [t \in Threads |-> EmptyFrame]
    /\ config = NoConfig

\* the result the versioner gives to every call of GetTokenizationVersion
TokenizationVersionResult ==
    CHOOSE r \in GetTokenizationVersion(engine.versioner) : ~r.err

\* the result the versioner gives to every call of GetDetokenizationVersions
DetokenizationVersionsResult ==
    CHOOSE r \in GetDetokenizationVersions(engine.versioner) : ~r.err

\* goroutine t is at position pc, with its call returned if pc is "done"
At(t, pc, out, err) == [threads EXCEPT ![t].pc = pc, ![t].out = out, ![t].err = err]

\* goroutine t calls EncryptCC(cc): input validation
BeginEncryptCC(t, cc) ==
    /\ threads[t].pc = "idle"
    /\ threads' = [threads EXCEPT ![t] =
                     [pc |-> IF isValidCC(cc) THEN "versioner" ELSE "done",
                      op |-> "EncryptCC", arg |-> cc, out |-> <<>>,
                      err |-> IF isValidCC(cc) THEN "nil" ELSE "InvalidCC"]]
    /\ UNCHANGED <<engine, newErr, versioner, encKeys, hmacKeys, changes, last, issued, seed, codec, frames, config>>

\* goroutine t calls DecryptTK(tk)
BeginDecryptTK(t, tk) ==
    /\ threads[t].pc = "idle"
    /\ threads' = [threads EXCEPT ![t] =
                     [pc |-> "versioner", op |-> "DecryptTK", arg |-> tk, out |-> <<>>,
                      err |-> "nil"]]
    /\ UNCHANGED <<engine, newErr, versioner, encKeys, hmacKeys, changes, last, issued, seed, codec, frames, config>>

\* the call of goroutine t asks the versioner: v for EncryptCC, detokVers
\* for DecryptTK
StepVersioner(t) ==
    /\ threads[t].pc = "versioner"
    /\ IF threads[t].op = "EncryptCC"
       THEN /\ frames' = [frames EXCEPT ![Frame(t)].v = TokenizationVersionResult.v]
            /\ threads' = At(t, "ekey", <<>>, "nil")
       ELSE /\ frames' = [frames EXCEPT ![Frame(t)].detokVers = DetokenizationVersionsResult.vers]
            /\ threads' = At(t, "validate", <<>>, "nil")
    /\ UNCHANGED <<engine, newErr, versioner, encKeys, hmacKeys, changes, last, issued, seed, codec, config>>

\* the DecryptTK call of goroutine t validates its token and reads the
\* token's version
StepValidateTK(t) ==
    /\ threads[t].pc = "validate"
    /\ IF isValidTK(threads[t].arg, engine.alphaProvider, frames[Frame(t)].detokVers)
       THEN /\ frames' = [frames EXCEPT ![Frame(t)].v = threads[t].arg[7]]
            /\ threads' = At(t, "ekey", <<>>, "nil")
       ELSE /\ threads' = At(t, "done", <<>>, "InvalidTK")
            /\ UNCHANGED frames
    /\ UNCHANGED <<engine, newErr, versioner, encKeys, hmacKeys, changes, last, issued, seed, codec, config>>

\* the call of goroutine t fetches the encryption key of its version
StepEncryptionKey(t) ==
    /\ threads[t].pc = "ekey"
    /\ LET r == GetKey(engine.encryptionKeys, frames[Frame(t)].v)
       IN  IF r.err
           THEN /\ threads' = At(t, "done", <<>>, "KeyNotFound")
                /\ UNCHANGED frames
           ELSE /\ frames' = [frames EXCEPT ![Frame(t)].ekey = r.key]
                /\ threads' = At(t, "hkey", <<>>, "nil")
    /\ UNCHANGED <<engine, newErr, versioner, encKeys, hmacKeys, changes, last, issued, seed, codec, config>>

\* the call of goroutine t fetches the HMAC key of its version
StepHmacKey(t) ==
    /\ threads[t].pc = "hkey"
    /\ LET r == GetKey(engine.hmacKeys, frames[Frame(t)].v)
       IN  IF r.err
           THEN /\ threads' = At(t, "done", <<>>, "KeyNotFound")
                /\ UNCHANGED frames
           ELSE /\ frames' = [frames EXCEPT ![Frame(t)].hkey = r.key]
                /\ threads' = At(t, "finish", <<>>, "nil")
    /\ UNCHANGED <<engine, newErr, versioner, encKeys, hmacKeys, changes, last, issued, seed, codec, config>>

\* the call of goroutine t computes the tweak, runs the cipher and the
\* codec on its locals, and returns
StepFinish(t) ==
    /\ threads[t].pc = "finish"
    /\ LET f == frames[Frame(t)]
           r == IF threads[t].op = "EncryptCC"
                THEN EncryptWithKeys(engine, threads[t].arg, f.v, f.ekey, f.hkey, <<>>)
                ELSE DecryptWithKeys(engine, threads[t].arg, f.ekey, f.hkey, <<>>)
       IN  threads' = At(t, "done", r.out, r.err)
    /\ UNCHANGED <<engine, newErr, versioner, encKeys, hmacKeys, changes, last, issued, seed, codec, frames, config>>

ConcNext ==
    \/ \E t \in Threads, cc \in ConcCards : BeginEncryptCC(t, cc)
    \/ \E t \in Threads, tk \in ConcTokens : BeginDecryptTK(t, tk)
    \/ \E t \in Threads : StepVersioner(t)
    \/ \E t \in Threads : StepValidateTK(t)
    \/ \E t \in Threads : StepEncryptionKey(t)
    \/ \E t \in Threads : StepHmacKey(t)
    \/ \E t \in Threads : StepFinish(t)

ConcSpec == ConcInit /\ [][ConcNext]_vars

(***************************************************************************)
(* Runs of the command-line tool: it reads a configuration record, builds  *)
(* the engine from it (the dummy engine when no file is named), encrypts   *)
(* cards and decrypts tokens.  A record is [tokenizationVersion,           *)
(* detokenizationVersions, versions, charSets], versions being a list of   *)
(* [vid, encryptionKey, hmacKey]; state tells what became of it: "read",   *)
(* then "accepted" or "rejected" by parseConfig.                           *)
(***************************************************************************)
\* an entry of Versions for version byte v, with keys of generation j
ConfigVersion(v, j) ==
    [vid |-> StringOfByte(v), encryptionKey |-> KeyOf(v, j), hmacKey |-> KeyOf(v + 1, j)]

\* the records a configuration file may hold: the tokenization version "a",
\* "b", empty or "ab"; the detokenization versions any of "", "a", "b", "ab",
\* "ac"; entries for 'a' and 'b', for one of them, for none, or two entries
\* for 'a'; character sets that are the default alphabets, or lack base 14
Configs ==
    [state : {"read"},
     tokenizationVersion : {<<97>>, <<98>>, <<>>, <<97, 98>>},
     detokenizationVersions : {<<>>, <<97>>, <<98>>, <<97, 98>>, <<97, 99>>},
     versions : {<<>>,
                 <<ConfigVersion(97, 1)>>,
                 <<ConfigVersion(98, 1)>>,
                 <<ConfigVersion(97, 1), ConfigVersion(98, 1)>>,
                 <<ConfigVersion(97, 1), ConfigVersion(97, 0)>>},
     charSets : {"default", "missingBase14"}]

\* parseConfig(c) of a record c that is not nil: TRUE when it returns an error
parseConfig(c) ==
    LET tokVer == ConfigTokenizationVersion(c)
        detokVer == c.detokenizationVersions
    IN  \/ tokVer.err
        \/ ConfigGetKey(c.versions, TRUE, tokVer.v).err
        \/ ConfigGetKey(c.versions, FALSE, tokVer.v).err
        \/ \E i \in 1..Len(detokVer) :
              \/ ConfigGetKey(c.versions, TRUE, detokVer[i]).err
              \/ ConfigGetKey(c.versions, FALSE, detokVer[i]).err

\* the tool starts, no record read, no engine built
ConfigInit ==
    /\ engine = NilEngine
    /\ newErr = FALSE
    /\ versioner = [tokVersion |-> 97, detokVersions |-> <<97, 200>>]
    /\ encKeys = [v \in Versions |-> KeyOf(v, 1)]
    /\ hmacKeys = [v \in Versions |-> KeyOf(v + 1, 1)]
    /\ changes = 0
    /\ last = NoCall
    /\ issued = NoToken
    /\ seed = 1
    /\ codec = <<>>
    /\ threads = <<>>
    /\ frames = <<>>
    /\ config = NoConfig

\* readConfigFile(path) returns the record c
ReadConfigFile(c) ==
    /\ config = NoConfig
    /\ engine = NilEngine
    /\ config' = c
    /\ UNCHANGED <<engine, newErr, versioner, encKeys, hmacKeys, changes, last, issued, seed, codec, threads, frames>>

\* buildTKEngine: NewDummyEngine when no file was named; otherwise
\* parseConfig and, when it accepts the record, NewEngine on the providers
\* it returns
BuildTKEngine ==
    /\ engine = NilEngine
    /\ ~newErr
    /\ IF config = NoConfig THEN NewDummyEngine
       ELSE /\ config.state = "read"
            /\ IF parseConfig(config)
               THEN /\ config' = [config EXCEPT !.state = "rejected"]
                    /\ engine' = NilEngine
                    /\ newErr' = TRUE
               ELSE /\ config' = [config EXCEPT !.state = "accepted"]
                    /\ IF validateAlphabetProvider(config.charSets)
                       THEN /\ engine' = NilEngine
                            /\ newErr' = TRUE
                       ELSE /\ engine' = [versioner |-> "configVersioner",
                                          encryptionKeys |-> "configEncryptionKeys",
                                          hmacKeys |-> "configHmacKeys",
                                          alphaProvider |-> config.charSets]
                            /\ newErr' = FALSE
            /\ UNCHANGED <<versioner, encKeys, hmacKeys, changes, last, issued, seed, codec, threads, frames>>

ConfigNext ==
    \/ \E c \in Configs : ReadConfigFile(c)
    \/ BuildTKEngine
    \/ \E cc \in CCInputs : CallEncryptCC(cc)
    \/ \E tk \in TKInputs : CallDecryptTK(tk)
    \/ StartOver

ConfigSpec == ConfigInit /\ [][ConfigNext]_vars

(***************************************************************************)
(* Properties.                                                             *)
(***************************************************************************)
\* the last call was an EncryptCC that returned a token
EncOK == last.op = "EncryptCC" /\ last.err = "nil"

\* this step is a call of DecryptTK
DecStep == last' # last /\ last'.op = "DecryptTK"

\* the list GetDetokenizationVersions returns when it does not fail
DetokVersionsNow ==
    IF engine.versioner = "dummyVersioner" THEN <<97, 98, 99, 100>>
    ELSE versioner.detokVersions

\* both repositories return for the held token's version the keys it was issued under
KeysAsIssued ==
    /\ GetKey(engine.encryptionKeys, issued.ver[1]) = [key |-> issued.ekey, err |-> FALSE]
    /\ GetKey(engine.hmacKeys, issued.ver[1]) = [key |-> issued.hkey, err |-> FALSE]

\* this step decrypts the held token while its version is accepted for
\* detokenization and its keys are the ones it was issued under
DecOfHeldStep ==
    /\ DecStep
    /\ issued # NoToken
    /\ last'.arg = issued.tk
    /\ last'.err # "Versioner"
    /\ issued.ver[1] \in Range(DetokVersionsNow)
    /\ KeysAsIssued

\* C1: round trip. Whenever DecryptTK is given a token EncryptCC issued, the
\* token's version is in the detokenization versions at that time and both
\* repositories still return the keys of issuance, DecryptTK succeeds and
\* returns the card the token was issued for.
C1_RoundTrip ==
    [][DecOfHeldStep => (last'.err = "nil" /\ last'.out = issued.cc)]_vars

\* C2: length preservation. A token returned by EncryptCC has as many bytes
\* as the card, whatever version byte the versioner returned.
C2_LengthPreserved == EncOK => Len(last.out) = Len(last.arg)

\* C3: digit preservation. The first 6 and the last 4 characters of a token
\* returned by EncryptCC are those of the card.
C3_DigitsPreserved ==
    EncOK =>
        /\ Len(last.out) >= 10
        /\ SubSeq(last.out, 1, 6) = SubSeq(last.arg, 1, 6)
        /\ SubSeq(last.out, Len(last.out) - 3, Len(last.out))
             = SubSeq(last.arg, Len(last.arg) - 3, Len(last.arg))

\* C3 witness: a token was returned whose middle differs from the card's
\* and that does not even have the card's length
C3_Witness == EncOK /\ last.out # last.arg /\ Len(last.out) # Len(last.arg)

\* C4: version marker. The byte at index 6 of a token returned by EncryptCC
\* is the version byte the versioner returned during the call, and the
\* marker takes one character: the middle segment starts right after it.
C4_VersionMarker ==
    EncOK =>
        /\ last.out[7] = last.ver[1]
        /\ Len(last.out) = Len(last.arg)

\* the alphabet for the tokens of a card of length L
AlphabetForLength(L) ==
    GetAlphabetForBase(engine.alphaProvider, encodingBaseToSaveOneChar(L - 10).base).alpha

\* C5: alphabet containment. For a card of length L, the token positions 7
\* to L-5 hold L-11 characters, each a symbol of the alphabet of base
\* table[L-10], and the last four digits follow right after them.
C5_AlphabetContainment ==
    EncOK =>
        LET L == Len(last.arg)
        IN  /\ Len(last.out) = L
            /\ \A i \in 8..(L - 4) : last.out[i] \in Range(AlphabetForLength(L))

\* C6: a token returned by EncryptCC is made of characters of [0-9a-zA-Z]
\* only: 6 digits, a version symbol, middle symbols, 4 digits.
C6_Alphanumeric ==
    EncOK =>
        /\ \A i \in 1..Len(last.out) : last.out[i] \in AlphaNum
        /\ \A i \in 1..6 : last.out[i] \in AsciiDigits
        /\ \A i \in (Len(last.out) - 3)..Len(last.out) : last.out[i] \in AsciiDigits

\* a string that is not 13 to 19 ASCII digits
Malformed(cc) ==
    \/ Len(cc) < 13
    \/ Len(cc) > 19
    \/ \E i \in 1..Len(cc) : cc[i] \notin 48..57

C8_VersionGating ==
    [][(DecStep /\ Len(last'.arg) >= 7 /\ last'.arg[7] \notin Range(DetokVersionsNow))
         => (last'.err # "nil" /\ last'.out = <<>>)]_vars

\* C8 witness: the held token, otherwise valid, was refused because its
\* version has been retired, while both repositories still hold its keys
C8_Witness ==
    /\ last.op = "DecryptTK"
    /\ last.err = "InvalidTK"
    /\ issued # NoToken
    /\ last.arg = issued.tk
    /\ last.arg[7] = issued.ver[1]
    /\ UsesCallerProviders
    /\ last.arg[7] \notin Range(versioner.detokVersions)
    /\ KeysAsIssued

\* a token of 13 to 19 bytes, ASCII digits in its first 6 and last 4, and
\* only symbols of the alphabet of its length between byte 7 and the last 4
WellFormedTK(tk) ==
    /\ Len(tk) >= 13
    /\ Len(tk) <= 19
    /\ \A i \in 1..6 : tk[i] \in 48..57
    /\ \A i \in (Len(tk) - 3)..Len(tk) : tk[i] \in 48..57
    /\ \A i \in 8..(Len(tk) - 4) : tk[i] \in Range(AlphabetForLength(Len(tk)))

\* C9: DecryptTK fails with InvalidTK on every input that is not well
\* formed (length, digits of the first 6 and last 4, middle symbols).
C9_MalformedTKRejected ==
    (last.op = "DecryptTK" /\ last.err # "Versioner" /\ ~WellFormedTK(last.arg))
        => last.err = "InvalidTK"

\* C10: key rotation. After the tokenization version has moved on from the
\* version v of the held token, DecryptTK still returns the token's card, as
\* long as v is accepted for detokenization and its keys are unchanged, and
\* it worked with v, not with the current tokenization version.
C10_KeyRotation ==
    [][(DecOfHeldStep /\ UsesCallerProviders /\ versioner.tokVersion # issued.ver[1])
         => (last'.err = "nil" /\ last'.out = issued.cc /\ last'.ver = issued.ver)]_vars

\* a string of 3 to 9 ASCII digits
DecimalSegment(d) == Len(d) \in 3..9 /\ \A i \in 1..Len(d) : d[i] \in 48..57

\* a string of 2 to 8 characters, each a symbol of the alphabet that the
\* engine's provider gives for the base of that length
SymbolSegment(t) ==
    /\ Len(t) \in 2..8
    /\ \A i \in 1..Len(t) : t[i] \in Range(AlphabetForSymbols(Len(t)))

\* C11: codec round trip, decimal side. Under every alphabet provider that
\* NewEngine accepts, encodeTkMD succeeds on every string d of 3 to 9
\* decimal digits, and decodeTkMD of what it returned succeeds and returns
\* exactly d, leading zeros included.
C11_DecimalRoundTrip ==
    (codec # <<>> /\ codec[1].op = "encodeTkMD" /\ DecimalSegment(codec[1].arg)) =>
        /\ codec[1].err = "nil"
        /\ Len(codec) = 2 => (codec[2].err = "nil" /\ codec[2].out = codec[1].arg)

\* C12: codec round trip, symbol side. decodeTkMD succeeds on every string t
\* of 2 to 8 symbols of the alphabet of base table[len(t)+1], and encodeTkMD
\* of what it returned succeeds and returns exactly t.
C12_SymbolRoundTrip ==
    (codec # <<>> /\ codec[1].op = "decodeTkMD" /\ SymbolSegment(codec[1].arg)) =>
        /\ codec[1].err = "nil"
        /\ Len(codec) = 2 => (codec[2].err = "nil" /\ codec[2].out = codec[1].arg)

\* the base table of the documentation: 3->32, 4->22, 5->18, 6->16, 7->15, 8->14, 9->14
BaseTable == <<0, 0, 32, 22, 18, 16, 15, 14, 14>>

LastCodecCall == codec[Len(codec)]

\* C20: encodeTkMD against its reference. Given s ASCII digits, s in [3,9],
\* of value n, with b = table[s], encodeTkMD returns exactly s-1 symbols,
\* the i-th (from 0) being alphabet[(n div b^(s-2-i)) mod b]; given fewer
\* than 3 or more than 9 characters it returns an error and an empty
\* string. Under the default alphabets "000"->"aa", "001"->"ab",
\* "021"->"av", "352"->"la", "353"->"lb", "00001"->"aaab".
C20_EncodeReference ==
    (codec # <<>> /\ LastCodecCall.op = "encodeTkMD") =>
        LET d == LastCodecCall.arg
            s == Len(d)
            out == LastCodecCall.out
            n == ParseDigits(d, 0)
            b == BaseTable[s]
            alpha == GetAlphabetForBase(engine.alphaProvider, b).alpha
        IN  /\ DecimalSegment(d) =>
                /\ LastCodecCall.err = "nil"
                /\ Len(out) = s - 1
                /\ \A i \in 1..(s - 1) :
                      /\ (n \div Pow(b, s - 1 - i)) % b \in 0..(b - 1)
                      /\ (n \div Pow(b, s - 1)) = 0
                      /\ i <= Len(out) => out[i] = alpha[((n \div Pow(b, s - 1 - i)) % b) + 1]
            /\ (s < 3 \/ s > 9) => (LastCodecCall.err # "nil" /\ out = <<>>)
            /\ (engine.alphaProvider = "default" /\ d = <<48, 48, 48>>) => out = <<97, 97>>
            /\ (engine.alphaProvider = "default" /\ d = <<48, 48, 49>>) => out = <<97, 98>>
            /\ (engine.alphaProvider = "default" /\ d = <<48, 50, 49>>) => out = <<97, 118>>
            /\ (engine.alphaProvider = "default" /\ d = <<51, 53, 50>>) => out = <<108, 97>>
            /\ (engine.alphaProvider = "default" /\ d = <<51, 53, 51>>) => out = <<108, 98>>
            /\ (engine.alphaProvider = "default" /\ d = <<48, 48, 48, 48, 49>>)
                  => out = <<97, 97, 97, 98>>

\* for at least one of the bases 14, 15, 16, 18, 22, 32 provider p returns an
\* error, an alphabet whose length is not the base, or one with a repeated symbol
ProviderDefect(p) ==
    \E b \in {14, 15, 16, 18, 22, 32} :
        LET r == GetAlphabetForBase(p, b)
        IN  \/ r.err
            \/ Len(r.alpha) # b
            \/ \E i, j \in 1..Len(r.alpha) : i < j /\ r.alpha[i] = r.alpha[j]

\* C14: NewEngine returns an error and no engine if and only if the provider
\* it is given has such a defect for at least one required base; otherwise
\* it returns an engine wired to the versioner, the key repositories and
\* the provider it was given.
C14_NewEngineValidation ==
    [][\A p \in ProviderChoices :
          NewEngine(p) =>
              IF ProviderDefect(p)
              THEN newErr' /\ engine' = NilEngine
              ELSE /\ ~newErr'
                   /\ engine' = [versioner |-> "versioner", encryptionKeys |-> "encKeys",
                                 hmacKeys |-> "hmacKeys", alphaProvider |-> p]]_vars

\* C14 witness: a construction has failed and left no engine
C14_Witness == newErr /\ engine = NilEngine

\* the 32 symbols a..z, 0..5 of the documentation, written out
DocumentedSymbols ==
    <<97, 98, 99, 100, 101, 102, 103, 104, 105, 106, 107, 108, 109, 110, 111, 112, 113,
      114, 115, 116, 117, 118, 119, 120, 121, 122, 48, 49, 50, 51, 52, 53>>

\* C15: the alphabet provider of an engine built by
\* NewEngineWithDefaultAlphabet or NewDummyEngine, which do not validate it,
\* returns for each base b of 14, 15, 16, 18, 22, 32 exactly the first b of
\* the symbols a..z, 0..5, all distinct, and an error for every other base:
\* such an engine never holds an alphabet of the wrong size or with a
\* repeated symbol.
C15_DefaultAlphabets ==
    [][(NewEngineWithDefaultAlphabet \/ NewDummyEngine) =>
          /\ \A b \in 0..40 :
                LET r == GetAlphabetForBase(engine'.alphaProvider, b)
                IN  IF b \in {14, 15, 16, 18, 22, 32}
                    THEN /\ ~r.err
                         /\ r.alpha = SubSeq(DocumentedSymbols, 1, b)
                         /\ Cardinality(Range(r.alpha)) = b
                    ELSE r.err
          /\ ~ProviderDefect(engine'.alphaProvider)]_vars

\* C15 witness: an engine built by NewDummyEngine holds the default provider
C15_Witness == engine.versioner = "dummyVersioner" /\ engine.alphaProvider = "default"

\* what the call of goroutine t returns when it runs alone on this engine
\* and these providers
RunAlone(t) ==
    IF threads'[t].op = "EncryptCC"
    THEN EncryptCC(engine, threads'[t].arg, TokenizationVersionResult)
    ELSE DecryptTK(engine, threads'[t].arg, DetokenizationVersionsResult)

\* C16: statelessness under concurrency. With providers that do not change,
\* in every interleaving of the steps of concurrent EncryptCC and DecryptTK
\* calls on one engine, no step changes the engine's fields (versioner,
\* encryptionKeys, hmacKeys, alphaProvider) or the providers, and every call
\* returns the string and the error it returns when run alone.
C16_Stateless ==
    [][/\ engine' = engine
       /\ <<versioner, encKeys, hmacKeys>>' = <<versioner, encKeys, hmacKeys>>
       /\ \A t \in Threads :
             threads'[t].pc = "done" =>
                 /\ threads'[t].out = RunAlone(t).out
                 /\ threads'[t].err = RunAlone(t).err]_vars

\* C16 witness: an EncryptCC and a DecryptTK call made at the same time
\* have both returned, having worked with different versions and keys
C16_Witness ==
    /\ threads # <<>>
    /\ threads[1].pc = "done" /\ threads[1].op = "EncryptCC" /\ threads[1].err = "nil"
    /\ threads[2].pc = "done" /\ threads[2].op = "DecryptTK" /\ threads[2].err = "KeyNotFound"
    /\ frames[1].v # frames[2].v
    /\ frames[1].ekey # frames[2].ekey

\* this step is a call of EncryptCC
EncStep == last' # last /\ last'.op = "EncryptCC"

\* C17: a call of EncryptCC on the engine of NewDummyEngine leaves the seed
\* of the process-wide random source as it was: the dummy versioner does not
\* reseed that source on each GetTokenizationVersion call.
C17_NoReseed ==
    [][(EncStep /\ engine.versioner = "dummyVersioner") => seed' = seed]_vars

\* repository ref holds no key for the version in the one-element sequence ver
NoKeyFor(ref, ver) == ver # <<>> /\ ver[1] \notin DOMAIN RepoKeys(ref)

\* the call recorded in r made no call twice, and the call that returned an
\* error, if any, was its last
NoRetry(r) ==
    /\ \A i, j \in 1..Len(r.calls) : i # j => r.calls[i] # r.calls[j]
    /\ r.fail # "" => (r.calls # <<>> /\ r.calls[Len(r.calls)] = r.fail)

\* C18: provider error propagation. EncryptCC returns an error and an empty
\* token whenever GetTokenizationVersion fails, either repository has no
\* key for the version returned, or the encryption key is one the cipher
\* rejects (the empty key); DecryptTK returns an error and an empty result
\* whenever GetDetokenizationVersions fails or either repository has no key
\* for the token's version. The failing call is the last one made and no
\* call is made twice.
C18_ErrorPropagation ==
    [][/\ EncStep =>
            /\ ( \/ last'.fail = "GetTokenizationVersion"
                 \/ NoKeyFor(engine.encryptionKeys, last'.ver)
                 \/ NoKeyFor(engine.hmacKeys, last'.ver)
                 \/ (last'.ver # <<>> /\ ~NoKeyFor(engine.encryptionKeys, last'.ver)
                       /\ RepoKeys(engine.encryptionKeys)[last'.ver[1]] = <<>>) )
               => (last'.err # "nil" /\ last'.out = <<>>)
            /\ NoRetry(last')
       /\ DecStep =>
            /\ ( \/ last'.fail = "GetDetokenizationVersions"
                 \/ (Len(last'.arg) >= 7 /\ NoKeyFor(engine.encryptionKeys, <<last'.arg[7]>>))
                 \/ (Len(last'.arg) >= 7 /\ NoKeyFor(engine.hmacKeys, <<last'.arg[7]>>)) )
               => (last'.err # "nil" /\ last'.out = <<>>)
            /\ NoRetry(last')]_vars

\* C18 witness: EncryptCC got a version and its encryption key, found no
\* HMAC key for it, and returned an error and no token
C18_Witness ==
    /\ last.op = "EncryptCC"
    /\ last.fail = "hmacKeys.GetKey"
    /\ last.calls = <<"GetTokenizationVersion", "encryptionKeys.GetKey", "hmacKeys.GetKey">>
    /\ last.err = "KeyNotFound"
    /\ last.out = <<>>

\* token tk of a card of length L, with every middle-segment symbol P[b][i]
\* replaced by Q[b][i], b being the base for that card length
Substituted(tk, L, P, Q) ==
    LET b == encodingBaseToSaveOneChar(L - 10).base
        pa == GetAlphabetForBase(P, b).alpha
        qa == GetAlphabetForBase(Q, b).alpha
    IN  [i \in 1..Len(tk) |->
            IF i >= 8 /\ i <= Len(tk) - 4 /\ AlphaMapIndex(pa, tk[i]) # 0
            THEN qa[AlphaMapIndex(pa, tk[i])]
            ELSE tk[i]]

\* C19: alphabet substitution. When EncryptCC returns a token under the
\* engine's provider P, then for every provider Q that meets the size and
\* uniqueness contract, the same card, version and keys give under Q the
\* token with each middle-segment symbol P[b][i] replaced by Q[b][i]; the
\* first 6 digits, the version character and the last 4 digits are the same.
C19_AlphabetSubstitution ==
    [][(EncStep /\ last'.err = "nil") =>
          \A q \in {x \in ProviderChoices : ~ProviderDefect(x)} :
              LET other == EncryptCC([engine EXCEPT !.alphaProvider = q], last'.arg,
                                     [v |-> last'.ver[1], err |-> FALSE, seed |-> seed])
              IN  /\ other.err = "nil"
                  /\ other.out = Substituted(last'.out, Len(last'.arg), engine.alphaProvider, q)
                  /\ SubSeq(other.out, 1, 7) = SubSeq(last'.out, 1, 7)
                  /\ SubSeq(other.out, Len(other.out) - 3, Len(other.out))
                       = SubSeq(last'.out, Len(last'.out) - 3, Len(last'.out))]_vars

RECURSIVE SymbolValue(_, _)
\* the value of the symbol string t in base Len(alpha): the sum over i of
\* index(t[i]) * b^(len(t)-1-i), index being the position in alpha from 0
SymbolValue(t, alpha) ==
    IF t = <<>> THEN 0
    ELSE (AlphaMapIndex(alpha, Head(t)) - 1) * Pow(Len(alpha), Len(t) - 1)
         + SymbolValue(Tail(t), alpha)

\* C21: decodeTkMD output length. Given a string t of s-1 symbols, s-1 in
\* [2,8], all of the alphabet of base table[s], decodeTkMD returns the value
\* of t as a decimal string of exactly s digits, left-padded with zeros: one
\* character more than its input. Given fewer than 2 or more than 8
\* characters, or a character that is not in the alphabet, it returns an error.
C21_DecodeLength ==
    (codec # <<>> /\ LastCodecCall.op = "decodeTkMD") =>
        LET t == LastCodecCall.arg
            out == LastCodecCall.out
        IN  /\ SymbolSegment(t) =>
                /\ LastCodecCall.err = "nil"
                /\ Len(out) = Len(t) + 1
                /\ \A i \in 1..Len(out) : out[i] \in 48..57
                /\ ParseDigits(out, 0) = SymbolValue(t, AlphabetForSymbols(Len(t)))
            /\ (Len(t) < 2 \/ Len(t) > 8) => LastCodecCall.err # "nil"
            /\ (Len(t) \in 2..8 /\ ~SymbolSegment(t)) => LastCodecCall.err # "nil"

\* the first 6 characters of s followed by its last 4
FirstSixLastFour(s) == SubSeq(s, 1, 6) \o SubSeq(s, Len(s) - 3, Len(s))

\* this step is a call of EncryptCC or DecryptTK that got as far as the keyed hash
HashStep == (EncStep \/ DecStep) /\ last'.msg # <<>>

\* C22: fingerprint. The message EncryptCC and DecryptTK give to the keyed
\* hash is exactly the 10 characters made of the first 6 and the last 4 of
\* the card or token, and nothing else; and when DecryptTK is given the held
\* token while the repositories return the keys of issuance, it hashes the
\* message EncryptCC hashed, under the same HMAC key, so the tweaks are equal.
C22_Fingerprint ==
    [][/\ HashStep =>
            /\ Len(last'.msg) = 10
            /\ last'.msg = FirstSixLastFour(last'.arg)
       /\ (HashStep /\ DecOfHeldStep /\ last.op = "EncryptCC") =>
            /\ last'.msg = last.msg
            /\ GetKey(engine.hmacKeys, last'.ver[1]).key = issued.hkey
            /\ Hmac(GetKey(engine.hmacKeys, last'.ver[1]).key, last'.msg)
                 = Hmac(issued.hkey, last.msg)]_vars

\* the string the call of op on arg gives to the cipher: the card's middle
\* digits for EncryptCC, the decoded middle segment for DecryptTK
CipherGiven(op, arg) ==
    IF op = "EncryptCC" THEN SubSeq(arg, 7, Len(arg) - 4)
    ELSE decodeTkMD(SubSeq(arg, 8, Len(arg) - 4), engine.alphaProvider).out

\* the string the cipher returns to the call of op on arg, which works with
\* the keys of version v
CipherReturned(op, arg, v) ==
    LET ekey == GetKey(engine.encryptionKeys, v).key
        tweak == Hmac(GetKey(engine.hmacKeys, v).key, SixByFour(arg))
    IN  IF op = "EncryptCC" THEN FpeEncrypt(ekey, tweak, CipherGiven(op, arg)).out
        ELSE FpeDecrypt(ekey, tweak, CipherGiven(op, arg)).out

\* C23: internal-invariant error only on a cipher defect. EncryptCC and
\* DecryptTK return the 'length differs' error only when the cipher returned
\* a string whose length is not that of the string it was given; the cipher
\* here preserves length, so no card that EncryptCC accepts and no token that
\* DecryptTK's validation accepts, with both keys present, gets that error.
C23_LengthDiffersOnlyOnCipherDefect ==
    [][((EncStep \/ DecStep) /\ last'.err = "LengthDiffers") =>
          Len(CipherReturned(last'.op, last'.arg, last'.ver[1]))
            # Len(CipherGiven(last'.op, last'.arg))]_vars

\* x fits in a signed 32-bit integer
FitsInt32(x) == x >= -MaxInt32 - 1 /\ x <= MaxInt32

\* x fits in an unsigned 32-bit integer: it is below 2^16 * 2^16
FitsUint32(x) == x >= 0 /\ x \div 65536 < 65536

\* the symbols encodeTkMD writes for the value n, with the mathematical
\* quotient and remainder: string(alpha[(n div b^(fsize-i)) mod b]), i = 1..fsize
ExactEncode(n, b, alpha, fsize) ==
    LET sym(i) == StringOfByte(alpha[((n \div Pow(b, fsize - i)) % b) + 1])
        upto[i \in 0..fsize] == IF i = 0 THEN <<>> ELSE upto[i - 1] \o sym(i)
    IN  upto[fsize]

\* C24: no overflow in the codec arithmetic. For a string of 3 to 9 digits
\* given to encodeTkMD, the parsed value and every divisor base^(s-1-i) fit
\* in a signed 32-bit integer, and what the int32 division and remainder
\* produce is what the mathematical ones produce. For a string of 2 to 8
\* symbols of the matching alphabet given to decodeTkMD, every term, every
\* partial sum and the total fit in an unsigned 32-bit integer, and the
\* value returned is the mathematical sum: nothing wraps modulo 2^32.
C24_NoOverflow ==
    codec # <<>> =>
        LET arg == LastCodecCall.arg
            s == IF LastCodecCall.op = "encodeTkMD" THEN Len(arg) ELSE Len(arg) + 1
            b == encodingBaseToSaveOneChar(s).base
            alpha == GetAlphabetForBase(engine.alphaProvider, b).alpha
            n == ParseDigits(arg, 0)
            term(i) == (AlphaMapIndex(alpha, arg[i]) - 1) * Pow(b, Len(arg) - i)
        IN  /\ (LastCodecCall.op = "encodeTkMD" /\ DecimalSegment(arg)) =>
                /\ FitsInt32(n)
                /\ \A i \in 1..(s - 1) : FitsInt32(Pow(b, s - 1 - i))
                /\ LastCodecCall.out = ExactEncode(n, b, alpha, s - 1)
            /\ (LastCodecCall.op = "decodeTkMD" /\ SymbolSegment(arg)) =>
                /\ \A i \in 1..Len(arg) :
                      /\ FitsUint32(term(i))
                      /\ FitsUint32(SymbolValue(SubSeq(arg, 1, i), alpha))
                /\ FitsUint32(SymbolValue(arg, alpha))
                /\ ParseDigits(LastCodecCall.out, 0) = SymbolValue(arg, alpha)

\* C24 witness: decodeTkMD was given eight times the highest symbol of the
\* base-14 alphabet and returned 14^8 - 1 = 1475789055, the largest value
\* the codec computes
C24_Witness ==
    /\ codec # <<>>
    /\ LastCodecCall.op = "decodeTkMD"
    /\ Len(LastCodecCall.arg) = 8
    /\ \A i \in 1..8 : AlphaMapIndex(AlphabetForSymbols(8), LastCodecCall.arg[i]) = 14
    /\ LastCodecCall.err = "nil"
    /\ LastCodecCall.out = <<49, 52, 55, 53, 55, 56, 57, 48, 53, 53>>

\* the engine is the one NewDummyEngine returns
IsDummyEngine ==
    engine = [versioner |-> "dummyVersioner", encryptionKeys |-> "dummyEncryptionKeys",
              hmacKeys |-> "dummyHmacKeys", alphaProvider |-> "default"]

\* C25: dummy engine consistency. On the engine of NewDummyEngine every
\* version GetTokenizationVersion can return is one of those
\* GetDetokenizationVersions returns and has a key in the encryption and in
\* the HMAC repository; so EncryptCC of a well-formed card never fails for a
\* missing key, whatever version is drawn, and DecryptTK never refuses the
\* token it returned for its version.
C25_DummyEngineConsistent ==
    [][IsDummyEngine =>
          /\ \A r \in GetTokenizationVersion(engine.versioner) :
                /\ ~r.err
                /\ \A dv \in GetDetokenizationVersions(engine.versioner) :
                      ~dv.err /\ r.v \in Range(dv.vers)
                /\ ~GetKey(engine.encryptionKeys, r.v).err
                /\ ~GetKey(engine.hmacKeys, r.v).err
          /\ (EncStep /\ ~Malformed(last'.arg)) =>
                /\ last'.err # "KeyNotFound"
                /\ last'.fail = ""
                /\ last'.ver # <<>>
          /\ (DecStep /\ issued # NoToken /\ last'.arg = issued.tk) =>
                /\ \A dv \in GetDetokenizationVersions(engine.versioner) :
                      last'.arg[7] \in Range(dv.vers)
                /\ last'.err \notin {"InvalidTK", "KeyNotFound"}]_vars

\* C25 witness: the dummy engine drew version 'd' for a card, and DecryptTK
\* of the token it returned gave the card back
C25_Witness ==
    /\ IsDummyEngine
    /\ issued # NoToken
    /\ issued.ver = <<100>>
    /\ last.op = "DecryptTK"
    /\ last.arg = issued.tk
    /\ last.arg[7] = 100
    /\ last.err = "nil"
    /\ last.out = issued.cc

\* repository ref holds a key for version v
HasKey(ref, v) == v \in DOMAIN RepoKeys(ref)

\* C26: configuration-built engine. For every configuration record that
\* parseConfig accepts, the tokenization version and every detokenization
\* version have a key in the encryption and in the HMAC repository, and the
\* tokenization version is one of the detokenization versions; so the
\* engine built from the record returns, for every token it has issued, the
\* card the token was issued for.
C26_ConfigConsistent ==
    config.state = "accepted" =>
        LET tokVer == ConfigTokenizationVersion(config)
            detokVer == config.detokenizationVersions
        IN  /\ ~tokVer.err
            /\ HasKey("configEncryptionKeys", tokVer.v)
            /\ HasKey("configHmacKeys", tokVer.v)
            /\ \A i \in 1..Len(detokVer) :
                  /\ HasKey("configEncryptionKeys", detokVer[i])
                  /\ HasKey("configHmacKeys", detokVer[i])
            /\ tokVer.v \in Range(detokVer)
            /\ (last.op = "DecryptTK" /\ issued # NoToken /\ last.arg = issued.tk) =>
                  (last.err = "nil" /\ last.out = issued.cc)

====
